---------------------------- MODULE Spec2Model ----------------------------
(***************************************************************************)
(* Model of the dark-pool order book.                                      *)
(*                                                                         *)
(* The circuits (Backend/darkPool/encrypted-ixs/match_orders.rs):          *)
(* add_order, match_orders, cancel_order and get_orderbook_depth, each a   *)
(* pure function of an order book and its arguments, translated loop by    *)
(* loop. Every loop also records the indices its iterations go through.    *)
(*                                                                         *)
(* The program (Backend/darkPool/programs/darkpool/src/lib.rs): the        *)
(* instructions that queue a computation and the callbacks the cluster     *)
(* invokes with its signed output.                                         *)
(*                                                                         *)
(* Four specifications:                                                    *)
(*   Spec          one call of a circuit: Init queues one computation on   *)
(*                 an input book drawn from bounded sets, and the action   *)
(*                 of that computation runs it, keeping the book it read   *)
(*                 in call.orderbook_ctxt and the book it returned in      *)
(*                 orderbook;                                              *)
(*   SequenceSpec  every sequence of add_order, match_orders and           *)
(*                 cancel_order calls from the empty book, each call on    *)
(*                 the book the previous one returned;                     *)
(*   MatchingSpec  match_orders called again and again from any book;      *)
(*   ProgramSpec   the instructions and callbacks of lib.rs.               *)
(*                                                                         *)
(* u64 arithmetic is modelled on a word whose largest value is U64_MAX;    *)
(* an addition that exceeds it wraps, as the u64 addition of the source    *)
(* does in a build without overflow checks.                                *)
(*                                                                         *)
(* The loops recurse from inside the IF that reads the loop state, so that *)
(* TLC evaluates each iteration before it enters the next one instead of   *)
(* stacking the iterations up unevaluated.                                 *)
(***************************************************************************)
EXTENDS Integers, FiniteSets, Sequences, TLC

\* ------------------------------------------------------------------ bounds

\* Number of slots of the book (const MAX_ORDERS, 100 in the source).
MAX_ORDERS == 4

\* Largest value of the unsigned word that stands for u64.
U64_MAX == 15

\* How far above the number of active slots the order_count of an input
\* book may lie (match_orders deactivates slots without decrementing it).
MaxDrift == 2

\* Largest order_count at which a sequence of calls still adds an order.
MaxOrderCount == 4

\* ------------------------------------------------------------- u64 helpers

U64_MOD == U64_MAX + 1

\* a + b on u64 (wrapping).
AddU64(a, b) == (a + b) % U64_MOD

\* a - b on u64 (wrapping).
SubU64(a, b) == (a - b + U64_MOD) % U64_MOD

\* ------------------------------------------------------------------- types

Slots == 0 .. (MAX_ORDERS - 1)

BUY == 0
SELL == 1
MARKET == 0
LIMIT == 1

\* Length of the array get_orderbook_depth returns ([u64; 20]).
DEPTH_LEN == 20

\* Number of leading entries of that array written by the buy loop
\* (for i in 0..10; the sell loop is for i in 10..20).
BUY_LEVELS == 10

\* let mut depth: [u64; 20] = [0; 20] of get_orderbook_depth.
ZeroDepth == [k \in 0 .. (DEPTH_LEN - 1) |-> 0]

\* struct Order, all fields zero: the content of a never-used slot.
ZeroOrder ==
    [price |-> 0, amount |-> 0, side |-> 0, order_type |-> 0,
     user_id |-> 0, active |-> 0]

\* MatchResult as match_orders initialises it.
NoMatch ==
    [matched |-> 0, match_price |-> 0, match_amount |-> 0,
     buy_order_id |-> 0, sell_order_id |-> 0]

\* ------------------------------------------------------------- add_order

\* Mutant of should_add: the added flag is not consulted.
should_add_every_empty(is_empty, added) == is_empty

\* Mutant of should_add: the first slot is taken whether or not it is
\* empty.
should_add_anywhere(is_empty, added) == added = 0

\* should_add of add_order.
should_add(is_empty, added) == is_empty /\ added = 0

RECURSIVE add_order_loop(_, _, _)
\* for i in 0..MAX_ORDERS of add_order; st = [ob, added, visited], visited
\* being the slot indices the iterations have gone through so far.
add_order_loop(order, st, i) ==
    IF i = MAX_ORDERS THEN st
    ELSE LET is_empty == st.ob.orders[i].active = 0
         IN IF should_add(is_empty, st.added)
            THEN add_order_loop(
                     order,
                     [ob |-> [st.ob EXCEPT !.orders[i] =
                                  [order EXCEPT !.active = 1]],
                      added |-> 1,
                      visited |-> Append(st.visited, i)],
                     i + 1)
            ELSE add_order_loop(
                     order, [st EXCEPT !.visited = Append(@, i)], i + 1)

\* Mutant of count_increment: the count grows whether or not a slot was
\* found.
count_increment_always(added) == 1

\* Mutant of count_increment: an insertion is not counted.
count_increment_never(added) == 0

\* count_increment of add_order.
count_increment(added) == IF added = 1 THEN 1 ELSE 0

\* The loop of add_order run on ob: its final [ob, added, visited].
add_order_scan(order, ob) ==
    add_order_loop(order, [ob |-> ob, added |-> 0, visited |-> <<>>], 0)

add_order(order, ob) ==
    LET st == add_order_scan(order, ob)
    IN [st.ob EXCEPT !.order_count =
                         AddU64(st.ob.order_count, count_increment(st.added))]

\* ----------------------------------------------------------- match_orders

\* Mutant of both_active: one active order is enough.
both_active_either(buy_order, sell_order) ==
    buy_order.active = 1 \/ sell_order.active = 1

\* both_active of match_orders.
both_active(buy_order, sell_order) ==
    buy_order.active = 1 /\ sell_order.active = 1

\* Mutant of not_same_user: the owners are not compared.
not_same_user_unchecked(buy_order, sell_order) == TRUE

\* not_same_user of match_orders.
not_same_user(buy_order, sell_order) ==
    buy_order.user_id # sell_order.user_id

\* Mutant of price_match: two limit orders of equal price do not cross.
price_match_strict(buy_order, sell_order) ==
    IF buy_order.order_type = 0 \/ sell_order.order_type = 0
    THEN 1
    ELSE IF buy_order.price > sell_order.price THEN 1 ELSE 0

\* price_match of match_orders.
price_match(buy_order, sell_order) ==
    IF buy_order.order_type = 0 \/ sell_order.order_type = 0
    THEN 1
    ELSE IF buy_order.price >= sell_order.price THEN 1 ELSE 0

\* Mutant of can_match: a match already made does not stop the next one.
can_match_repeatedly(buy_order, sell_order, result) ==
    LET is_buy == buy_order.side = 0
        is_sell == sell_order.side = 1
    IN is_buy /\ is_sell /\ both_active(buy_order, sell_order)
       /\ not_same_user(buy_order, sell_order)
       /\ price_match(buy_order, sell_order) = 1

\* can_match of match_orders, for the pair read at this iteration.
can_match(buy_order, sell_order, result) ==
    LET is_buy == buy_order.side = 0
        is_sell == sell_order.side = 1
    IN is_buy /\ is_sell /\ both_active(buy_order, sell_order)
       /\ not_same_user(buy_order, sell_order)
       /\ price_match(buy_order, sell_order) = 1 /\ result.matched = 0

\* match_price of match_orders.
match_price(buy_order, sell_order) ==
    IF buy_order.order_type = 0 THEN sell_order.price
    ELSE IF sell_order.order_type = 0 THEN buy_order.price
    ELSE AddU64(buy_order.price, sell_order.price) \div 2

\* Mutant of match_amount: nothing is traded.
match_amount_none(buy_order, sell_order) == 0

\* Mutant of match_amount: the larger of the two amounts.
match_amount_larger(buy_order, sell_order) ==
    IF buy_order.amount > sell_order.amount
    THEN buy_order.amount
    ELSE sell_order.amount

\* match_amount of match_orders.
match_amount(buy_order, sell_order) ==
    IF buy_order.amount < sell_order.amount
    THEN buy_order.amount
    ELSE sell_order.amount

\* Mutant of commit_match: each slot the match empties is taken off
\* order_count.
commit_match_counting(st, i, j) ==
    LET buy_order == st.ob.orders[i]
        sell_order == st.ob.orders[j]
        amt == match_amount(buy_order, sell_order)
        res == [matched |-> 1,
                match_price |-> match_price(buy_order, sell_order),
                match_amount |-> amt,
                buy_order_id |-> i,
                sell_order_id |-> j]
        ob1 == [st.ob EXCEPT !.orders[i].amount = SubU64(@, amt)]
        ob2 == [ob1 EXCEPT !.orders[j].amount = SubU64(@, amt)]
        ob3 == IF ob2.orders[i].amount = 0
               THEN [ob2 EXCEPT !.orders[i].active = 0,
                                !.order_count = SubU64(@, 1)]
               ELSE ob2
        ob4 == IF ob3.orders[j].amount = 0
               THEN [ob3 EXCEPT !.orders[j].active = 0,
                                !.order_count = SubU64(@, 1)]
               ELSE ob3
    IN [st EXCEPT !.ob = ob4, !.result = res]

\* Mutant of commit_match: a slot the match empties stays active.
commit_match_keeping_filled(st, i, j) ==
    LET buy_order == st.ob.orders[i]
        sell_order == st.ob.orders[j]
        amt == match_amount(buy_order, sell_order)
        res == [matched |-> 1,
                match_price |-> match_price(buy_order, sell_order),
                match_amount |-> amt,
                buy_order_id |-> i,
                sell_order_id |-> j]
        ob1 == [st.ob EXCEPT !.orders[i].amount = SubU64(@, amt)]
        ob2 == [ob1 EXCEPT !.orders[j].amount = SubU64(@, amt)]
    IN [st EXCEPT !.ob = ob2, !.result = res]

\* The body of "if can_match": the result and the two slots are updated.
commit_match(st, i, j) ==
    LET buy_order == st.ob.orders[i]
        sell_order == st.ob.orders[j]
        amt == match_amount(buy_order, sell_order)
        res == [matched |-> 1,
                match_price |-> match_price(buy_order, sell_order),
                match_amount |-> amt,
                buy_order_id |-> i,
                sell_order_id |-> j]
        ob1 == [st.ob EXCEPT !.orders[i].amount = SubU64(@, amt)]
        ob2 == [ob1 EXCEPT !.orders[j].amount = SubU64(@, amt)]
        ob3 == IF ob2.orders[i].amount = 0
               THEN [ob2 EXCEPT !.orders[i].active = 0] ELSE ob2
        ob4 == IF ob3.orders[j].amount = 0
               THEN [ob3 EXCEPT !.orders[j].active = 0] ELSE ob3
    IN [st EXCEPT !.ob = ob4, !.result = res]

\* The pair (i, j) is added to the pairs gone through.
visit_pair(st, i, j) == [st EXCEPT !.visited = Append(@, <<i, j>>)]

RECURSIVE match_orders_inner(_, _, _)

\* Mutant of match_orders_inner: the scan of a row stops once a match is
\* made.
match_orders_inner_until_matched(st, i, j) ==
    IF j = MAX_ORDERS \/ st.result.matched = 1 THEN st
    ELSE IF can_match(st.ob.orders[i], st.ob.orders[j], st.result)
         THEN match_orders_inner(
                  visit_pair(commit_match(st, i, j), i, j), i, j + 1)
         ELSE match_orders_inner(visit_pair(st, i, j), i, j + 1)

\* for j in 0..MAX_ORDERS of match_orders, for one i; st = [ob, result,
\* visited], visited being the pairs the iterations have gone through.
match_orders_inner(st, i, j) ==
    IF j = MAX_ORDERS THEN st
    ELSE IF can_match(st.ob.orders[i], st.ob.orders[j], st.result)
         THEN match_orders_inner(
                  visit_pair(commit_match(st, i, j), i, j), i, j + 1)
         ELSE match_orders_inner(visit_pair(st, i, j), i, j + 1)

RECURSIVE match_orders_loop(_, _)
\* for i in 0..MAX_ORDERS of match_orders; st = [ob, result, visited].
match_orders_loop(st, i) ==
    IF i = MAX_ORDERS THEN st
    ELSE match_orders_loop(match_orders_inner(st, i, 0), i + 1)

\* Returns [ob, result, visited]: the updated book, the MatchResult and
\* the pairs gone through.
match_orders(ob) ==
    match_orders_loop([ob |-> ob, result |-> NoMatch, visited |-> <<>>], 0)

\* ----------------------------------------------------------- cancel_order

\* Mutant of should_cancel: the owner is not checked.
should_cancel_any_owner(is_target_order, is_owner, is_active) ==
    is_target_order /\ is_active

\* Mutant of should_cancel: every active order of the owner is cancelled.
should_cancel_any_slot(is_target_order, is_owner, is_active) ==
    is_owner /\ is_active

\* should_cancel of cancel_order.
should_cancel(is_target_order, is_owner, is_active) ==
    is_target_order /\ is_owner /\ is_active

RECURSIVE cancel_order_loop(_, _, _, _)
\* for i in 0..MAX_ORDERS of cancel_order; st = [ob, visited], visited
\* being the slot indices the iterations have gone through so far.
cancel_order_loop(order_id, user, st, i) ==
    IF i = MAX_ORDERS THEN st
    ELSE LET is_target_order == i = order_id
             is_owner == st.ob.orders[i].user_id = user
             is_active == st.ob.orders[i].active = 1
         IN IF should_cancel(is_target_order, is_owner, is_active)
            THEN cancel_order_loop(
                     order_id, user,
                     [ob |-> [st.ob EXCEPT !.orders[i].active = 0,
                                           !.order_count = SubU64(@, 1)],
                      visited |-> Append(st.visited, i)],
                     i + 1)
            ELSE cancel_order_loop(
                     order_id, user, [st EXCEPT !.visited = Append(@, i)],
                     i + 1)

\* The loop of cancel_order run on ob: its final [ob, visited].
cancel_order_scan(order_id, user, ob) ==
    cancel_order_loop(order_id, user, [ob |-> ob, visited |-> <<>>], 0)

cancel_order(order_id, user, ob) == cancel_order_scan(order_id, user, ob).ob

\* ---------------------------------------------------- get_orderbook_depth

RECURSIVE buy_level_volume(_, _, _)
\* for j in 0..MAX_ORDERS inside the buy loop, for one i; st = [j,
\* level_volume, visited], visited being the entries (i, j) gone through.
buy_level_volume(ob, st, i) ==
    IF st.j = MAX_ORDERS THEN st
    ELSE LET order == ob.orders[st.j]
             is_buy == order.side = 0
             is_active == order.active = 1
         IN IF is_buy /\ is_active
            THEN buy_level_volume(
                     ob,
                     [j |-> st.j + 1,
                      level_volume |-> AddU64(st.level_volume, order.amount),
                      visited |-> Append(st.visited, <<i, st.j>>)],
                     i)
            ELSE buy_level_volume(
                     ob,
                     [j |-> st.j + 1,
                      level_volume |-> st.level_volume,
                      visited |-> Append(st.visited, <<i, st.j>>)],
                     i)

RECURSIVE sell_level_volume(_, _, _)
\* for j in 0..MAX_ORDERS inside the sell loop, for one i; st as above.
sell_level_volume(ob, st, i) ==
    IF st.j = MAX_ORDERS THEN st
    ELSE LET order == ob.orders[st.j]
             is_sell == order.side = 1
             is_active == order.active = 1
         IN IF is_sell /\ is_active
            THEN sell_level_volume(
                     ob,
                     [j |-> st.j + 1,
                      level_volume |-> AddU64(st.level_volume, order.amount),
                      visited |-> Append(st.visited, <<i, st.j>>)],
                     i)
            ELSE sell_level_volume(
                     ob,
                     [j |-> st.j + 1,
                      level_volume |-> st.level_volume,
                      visited |-> Append(st.visited, <<i, st.j>>)],
                     i)

RECURSIVE buy_depth_loop(_, _)
\* for i in 0..10 of get_orderbook_depth; st = [i, depth, visited].
buy_depth_loop(ob, st) ==
    IF st.i = BUY_LEVELS THEN st
    ELSE LET level == buy_level_volume(
                          ob,
                          [j |-> 0, level_volume |-> 0,
                           visited |-> st.visited],
                          st.i)
         IN buy_depth_loop(
                ob,
                [i |-> st.i + 1,
                 depth |-> [st.depth EXCEPT ![st.i] = level.level_volume],
                 visited |-> level.visited])

RECURSIVE sell_depth_loop(_, _)
\* for i in 10..20 of get_orderbook_depth; st = [i, depth, visited].
sell_depth_loop(ob, st) ==
    IF st.i = DEPTH_LEN THEN st
    ELSE LET level == sell_level_volume(
                          ob,
                          [j |-> 0, level_volume |-> 0,
                           visited |-> st.visited],
                          st.i)
         IN sell_depth_loop(
                ob,
                [i |-> st.i + 1,
                 depth |-> [st.depth EXCEPT ![st.i] = level.level_volume],
                 visited |-> level.visited])

\* Returns [i, depth, visited]: the depth array and the entries gone
\* through; price_levels is not read and the book is not written.
get_orderbook_depth(ob, price_levels) ==
    LET buys == buy_depth_loop(
                    ob, [i |-> 0, depth |-> ZeroDepth, visited |-> <<>>])
    IN sell_depth_loop(ob, buys)

\* ------------------------------------------------------------------ inputs

\* Two prices around half the word: their sums fall on both sides of
\* U64_MAX.
Prices == {U64_MAX \div 2, U64_MAX \div 2 + 1}

Amounts == {0, 1, 2}

Users == {1, 2}

\* Every value of struct Order over the field sets above.
Orders ==
    [price : Prices, amount : Amounts, side : {BUY, SELL},
     order_type : {MARKET, LIMIT}, user_id : Users, active : {0, 1}]

\* Number of slots with active = 1.
ActiveCount(orders) == Cardinality({i \in Slots : orders[i].active = 1})

\* order_count values of an input book: never below the number of active
\* slots (add_order raises both together, match_orders lowers only the
\* number of active slots).
InputCounts(orders) == {ActiveCount(orders), ActiveCount(orders) + MaxDrift}

\* Slot arrays holding two arbitrary orders, every other slot never used.
PairArrays ==
    {[k \in Slots |-> IF k = i THEN a ELSE IF k = j THEN b ELSE ZeroOrder] :
        i \in Slots, j \in Slots, a \in Orders, b \in Orders}

\* Orders of one price, amount and type: any two of opposite sides and
\* different users cross.
DenseOrders ==
    {o \in Orders : o.price = U64_MAX \div 2 /\ o.amount = 1
                    /\ o.order_type = LIMIT}

\* Slot arrays with every slot used.
DenseArrays == [Slots -> DenseOrders]

\* Slot arrays of buy orders only, for the operations that do not read the
\* side.
BuyArrays == [Slots -> {o \in DenseOrders : o.side = BUY}]

\* Candidate orders handed to add_order: they differ from every order of
\* BuyArrays in price and amount.
Candidates ==
    {o \in Orders : o.price = U64_MAX \div 2 + 1 /\ o.amount = 2}

\* order_id values handed to cancel_order: every slot, and two values
\* outside the book.
OrderIds == 0 .. (MAX_ORDERS + 1)

\* Amounts of the books handed to get_orderbook_depth: a small one and one
\* above half the word, so that two of them sum past U64_MAX.
DepthAmounts == {1, U64_MAX \div 2 + 1}

\* Orders of those books: both sides, active and not, the price following
\* the amount.
DepthOrders ==
    {o \in [price : Prices, amount : DepthAmounts, side : {BUY, SELL},
            order_type : {LIMIT}, user_id : {1}, active : {0, 1}] :
        o.amount = 1 <=> o.price = U64_MAX \div 2}

DepthArrays == [Slots -> DepthOrders]

\* Values of the price_levels argument.
PriceLevels == {0, BUY_LEVELS}

\* ------------------------------------------------------------------- state

VARIABLES
    orderbook,  \* the OrderBook the cluster holds
    call,       \* the computation queued or last run, with its arguments,
                \* the book it read and the MatchResult it returned
    history     \* of a run of match_orders calls only: the number of
                \* active slots it started with, the number of calls that
                \* reported a match, and whether a call has reported none

vars == <<orderbook, call, history>>

\* The history where no run of match_orders calls is followed.
NoHistory == [active_at_start |-> 0, matched_calls |-> 0, settled |-> FALSE]

\* The SignedComputationOutputs of a computation no callback has received
\* yet.
NoOutput == [verifies |-> FALSE]

Call(op, order, order_id, user, ob) ==
    [op |-> op, state |-> "queued", order |-> order, order_id |-> order_id,
     user |-> user, price_levels |-> 0, orderbook_ctxt |-> ob,
     result |-> NoMatch, depth |-> ZeroDepth, visited |-> <<>>,
     output |-> NoOutput, error |-> "none", events |-> <<>>]

\* One computation is queued on a book the program can hold.
Init ==
    \/ \E a \in BuyArrays, o \in Candidates :
          \E c \in InputCounts(a) :
             /\ orderbook = [orders |-> a, order_count |-> c]
             /\ history = NoHistory
             /\ call = Call("add_order", o, 0, 0, orderbook)
    \/ \E a \in PairArrays \cup DenseArrays :
          \E c \in InputCounts(a) :
             /\ orderbook = [orders |-> a, order_count |-> c]
             /\ history = NoHistory
             /\ call = Call("match_orders", ZeroOrder, 0, 0, orderbook)
    \/ \E a \in BuyArrays, id \in OrderIds, u \in Users \cup {0} :
          \E c \in InputCounts(a) :
             /\ orderbook = [orders |-> a, order_count |-> c]
             /\ history = NoHistory
             /\ call = Call("cancel_order", ZeroOrder, id, u, orderbook)
    \/ \E a \in DepthArrays, p \in PriceLevels :
          /\ orderbook = [orders |-> a, order_count |-> ActiveCount(a)]
          /\ history = NoHistory
          /\ call = [Call("get_orderbook_depth", ZeroOrder, 0, 0, orderbook)
                        EXCEPT !.price_levels = p]

\* The add_order computation runs on the held book.
AddOrder ==
    /\ call.op = "add_order" /\ call.state = "queued"
    /\ orderbook' = add_order(call.order, orderbook)
    /\ UNCHANGED history
    /\ call' = [call EXCEPT
                   !.state = "done",
                   !.orderbook_ctxt = orderbook,
                   !.visited = add_order_scan(call.order, orderbook).visited]

\* The match_orders computation runs on the held book.
MatchOrders ==
    /\ call.op = "match_orders" /\ call.state = "queued"
    /\ LET out == match_orders(orderbook)
       IN /\ orderbook' = out.ob
          /\ UNCHANGED history
          /\ call' = [call EXCEPT !.state = "done",
                                  !.orderbook_ctxt = orderbook,
                                  !.result = out.result,
                                  !.visited = out.visited]

\* The cancel_order computation runs on the held book.
CancelOrder ==
    /\ call.op = "cancel_order" /\ call.state = "queued"
    /\ orderbook' = cancel_order(call.order_id, call.user, orderbook)
    /\ UNCHANGED history
    /\ call' = [call EXCEPT
                   !.state = "done",
                   !.orderbook_ctxt = orderbook,
                   !.visited = cancel_order_scan(call.order_id, call.user,
                                                 orderbook).visited]

\* The get_orderbook_depth computation runs on the held book.
GetOrderbookDepth ==
    /\ call.op = "get_orderbook_depth" /\ call.state = "queued"
    /\ orderbook' = orderbook
    /\ UNCHANGED history
    /\ LET out == get_orderbook_depth(orderbook, call.price_levels)
       IN call' = [call EXCEPT !.state = "done",
                               !.orderbook_ctxt = orderbook,
                               !.depth = out.depth,
                               !.visited = out.visited]

Next == AddOrder \/ MatchOrders \/ CancelOrder \/ GetOrderbookDepth

Spec == Init /\ [][Next]_vars

\* ------------------------------------------------------ sequences of calls

\* The book with every slot never used.
EmptyBook == [orders |-> [k \in Slots |-> ZeroOrder], order_count |-> 0]

\* Orders handed to add_order in a sequence of calls: a buy of two units
\* and a sell of one unit, of different users, at one limit price (they
\* cross, and the buy is filled by two sells).
SequenceOrders ==
    {o \in Orders :
        /\ o.price = U64_MAX \div 2 /\ o.order_type = LIMIT /\ o.active = 0
        /\ \/ o.side = BUY /\ o.user_id = 1 /\ o.amount = 2
           \/ o.side = SELL /\ o.user_id = 2 /\ o.amount = 1}

\* The record of a call that has run: its arguments, the book it read,
\* and what it returned besides the book.
Returned(op, order, order_id, user, ob, result, visited) ==
    [Call(op, order, order_id, user, ob)
        EXCEPT !.state = "done", !.result = result, !.visited = visited]

\* Nothing has been called yet on the empty book.
SequenceInit ==
    /\ orderbook = EmptyBook
    /\ history = NoHistory
    /\ call = Returned("none", ZeroOrder, 0, 0, EmptyBook, NoMatch, <<>>)

\* add_order runs on the book the previous call returned.
NextAddOrder ==
    /\ orderbook.order_count < MaxOrderCount
    /\ \E o \in SequenceOrders :
          /\ orderbook' = add_order(o, orderbook)
          /\ UNCHANGED history
          /\ call' = Returned("add_order", o, 0, 0, orderbook, NoMatch,
                              add_order_scan(o, orderbook).visited)

\* match_orders runs on the book the previous call returned.
NextMatchOrders ==
    LET out == match_orders(orderbook)
    IN /\ orderbook' = out.ob
       /\ UNCHANGED history
       /\ call' = Returned("match_orders", ZeroOrder, 0, 0, orderbook,
                           out.result, out.visited)

\* cancel_order runs on the book the previous call returned, for a slot
\* and the user_id that slot holds (calls by another user are those of
\* Spec).
NextCancelOrder ==
    \E id \in Slots :
       LET u == orderbook.orders[id].user_id
       IN /\ orderbook' = cancel_order(id, u, orderbook)
          /\ UNCHANGED history
          /\ call' = Returned("cancel_order", ZeroOrder, id, u, orderbook,
                              NoMatch,
                              cancel_order_scan(id, u, orderbook).visited)

SequenceNext == NextAddOrder \/ NextMatchOrders \/ NextCancelOrder

SequenceSpec == SequenceInit /\ [][SequenceNext]_vars

\* ------------------------------------------------- match_orders repeated

\* Active limit orders of one price, of either side and user, of one or
\* two units: books of them take several match_orders calls to drain, with
\* partial fills.
DrainOrders ==
    {o \in Orders : /\ o.price = U64_MAX \div 2 /\ o.order_type = LIMIT
                    /\ o.amount > 0 /\ o.active = 1}

DrainArrays == [Slots -> DrainOrders]

\* Any book, and nothing called yet.
MatchingInit ==
    \E a \in PairArrays \cup DrainArrays :
       /\ orderbook = [orders |-> a, order_count |-> ActiveCount(a)]
       /\ call = Returned("none", ZeroOrder, 0, 0, orderbook, NoMatch, <<>>)
       /\ history = [active_at_start |-> ActiveCount(a),
                     matched_calls |-> 0, settled |-> FALSE]

\* match_orders runs once more, on the book its previous call returned.
RepeatMatchOrders ==
    LET out == match_orders(orderbook)
    IN /\ orderbook' = out.ob
       /\ call' = Returned("match_orders", ZeroOrder, 0, 0, orderbook,
                           out.result, out.visited)
       /\ history' = [history EXCEPT
                         !.matched_calls = @ + out.result.matched,
                         !.settled = @ \/ out.result.matched = 0]

MatchingNext == RepeatMatchOrders

MatchingSpec == MatchingInit /\ [][MatchingNext]_vars

\* ------------------------------------------------- the program (lib.rs)

\* Orders a caller submits through darkpool::add_order: the five encrypted
\* fields of the ArgBuilder; active is not among them.
SubmittedOrders == {o \in Orders : o.active = 0}

\* Mutant of match_orders_callback: the event is emitted before the output
\* is verified.
match_orders_callback_emit_first(c, output) ==
    LET emitted == [c EXCEPT !.events = Append(@, "OrdersMatchedEvent")]
    IN IF output.verifies
       THEN [emitted EXCEPT !.state = "completed"]
       ELSE [emitted EXCEPT !.state = "aborted",
                            !.error = "AbortedComputation"]

\* add_order_callback: verify_output, then emit OrderAddedEvent; the
\* verified output (_o) is dropped.
add_order_callback(c, output) ==
    IF output.verifies
    THEN [c EXCEPT !.state = "completed",
                   !.events = Append(@, "OrderAddedEvent")]
    ELSE [c EXCEPT !.state = "aborted", !.error = "AbortedComputation"]

\* match_orders_callback: verify_output, then emit OrdersMatchedEvent with
\* the encrypted MatchResult (field_1); the returned book (field_0) is not
\* used.
match_orders_callback(c, output) ==
    IF output.verifies
    THEN [c EXCEPT !.state = "completed",
                   !.events = Append(@, "OrdersMatchedEvent")]
    ELSE [c EXCEPT !.state = "aborted", !.error = "AbortedComputation"]

\* cancel_order_callback: verify_output, then emit OrderCancelledEvent; the
\* verified output (_o) is dropped.
cancel_order_callback(c, output) ==
    IF output.verifies
    THEN [c EXCEPT !.state = "completed",
                   !.events = Append(@, "OrderCancelledEvent")]
    ELSE [c EXCEPT !.state = "aborted", !.error = "AbortedComputation"]

\* No computation is awaiting its callback.
NonePending == call.state # "queued"

\* The program starts with the empty book and nothing queued.
ProgramInit ==
    /\ orderbook = EmptyBook
    /\ history = NoHistory
    /\ call = [Call("none", ZeroOrder, 0, 0, EmptyBook)
                  EXCEPT !.state = "completed"]

\* darkpool::add_order queues the computation with the caller's order.
QueueAddOrder ==
    /\ NonePending
    /\ \E o \in SubmittedOrders :
          call' = Call("add_order", o, 0, 0, orderbook)
    /\ orderbook' = orderbook
    /\ UNCHANGED history

\* darkpool::match_orders queues the computation (no argument).
QueueMatchOrders ==
    /\ NonePending
    /\ call' = Call("match_orders", ZeroOrder, 0, 0, orderbook)
    /\ orderbook' = orderbook
    /\ UNCHANGED history

\* darkpool::cancel_order queues the computation with order_id and user_id.
QueueCancelOrder ==
    /\ NonePending
    /\ \E id \in OrderIds, u \in Users \cup {0} :
          call' = Call("cancel_order", ZeroOrder, id, u, orderbook)
    /\ orderbook' = orderbook
    /\ UNCHANGED history

\* The cluster calls add_order_callback with the signed output of the
\* computation, which verifies or not. No account of the program is
\* written.
AddOrderCallback ==
    /\ call.op = "add_order" /\ call.state = "queued"
    /\ \E ok \in BOOLEAN :
          LET output == [verifies |-> ok,
                         field_0 |-> add_order(call.order,
                                               call.orderbook_ctxt)]
          IN call' = add_order_callback([call EXCEPT !.output = output],
                                        output)
    /\ orderbook' = orderbook
    /\ UNCHANGED history

\* The cluster calls match_orders_callback with the signed output.
MatchOrdersCallback ==
    /\ call.op = "match_orders" /\ call.state = "queued"
    /\ \E ok \in BOOLEAN :
          LET out == match_orders(call.orderbook_ctxt)
              output == [verifies |-> ok, field_0 |-> out.ob,
                         field_1 |-> out.result]
          IN call' = match_orders_callback([call EXCEPT !.output = output],
                                           output)
    /\ orderbook' = orderbook
    /\ UNCHANGED history

\* The cluster calls cancel_order_callback with the signed output.
CancelOrderCallback ==
    /\ call.op = "cancel_order" /\ call.state = "queued"
    /\ \E ok \in BOOLEAN :
          LET output == [verifies |-> ok,
                         field_0 |-> cancel_order(call.order_id, call.user,
                                                  call.orderbook_ctxt)]
          IN call' = cancel_order_callback([call EXCEPT !.output = output],
                                           output)
    /\ orderbook' = orderbook
    /\ UNCHANGED history

ProgramNext ==
    \/ QueueAddOrder \/ QueueMatchOrders \/ QueueCancelOrder
    \/ AddOrderCallback \/ MatchOrdersCallback \/ CancelOrderCallback

ProgramSpec == ProgramInit /\ [][ProgramNext]_vars

\* ------------------------------------------------------------------ claims

\* The computation op has run: call.orderbook_ctxt is the book it read,
\* orderbook the book it returned.
Ran(op) == call.op = op /\ call.state = "done"

\* The inactive slots of a book.
InactiveSlots(ob) == {i \in Slots : ob.orders[i].active = 0}

\* The smallest element of a non-empty set of numbers.
Least(S) == CHOOSE x \in S : \A y \in S : x <= y

\* The pair (i, j) is crossable in ob: slot i is an active Buy, slot j an
\* active Sell, their owners differ, and one of them is Market or the buy
\* price is at least the sell price.
Crossable(ob, i, j) ==
    /\ ob.orders[i].side = BUY /\ ob.orders[j].side = SELL
    /\ ob.orders[i].active = 1 /\ ob.orders[j].active = 1
    /\ ob.orders[i].user_id # ob.orders[j].user_id
    /\ \/ ob.orders[i].order_type = MARKET
       \/ ob.orders[j].order_type = MARKET
       \/ ob.orders[i].price >= ob.orders[j].price

CrossablePairs(ob) == {p \in Slots \X Slots : Crossable(ob, p[1], p[2])}

\* Position of the pair p in the scan, i outer and j inner.
RowMajor(p) == p[1] * MAX_ORDERS + p[2]

\* The pair of CrossablePairs(ob) that the scan meets first.
FirstCrossable(ob) ==
    CHOOSE p \in CrossablePairs(ob) :
        \A q \in CrossablePairs(ob) : RowMajor(p) <= RowMajor(q)

\* The pair a MatchResult names.
MatchedPair(result) == <<result.buy_order_id, result.sell_order_id>>

\* C1: add_order on a book with at least one inactive slot writes the
\* candidate order, with active forced to 1, into the lowest-index inactive
\* slot, leaves every other slot as it was and raises order_count by
\* exactly 1, however many slots are inactive.
C1_AddFillsFirstInactiveSlot ==
    (Ran("add_order") /\ InactiveSlots(call.orderbook_ctxt) # {}) =>
        LET k == Least(InactiveSlots(call.orderbook_ctxt))
        IN /\ orderbook.orders[k] = [call.order EXCEPT !.active = 1]
           /\ \A i \in Slots \ {k} :
                 orderbook.orders[i] = call.orderbook_ctxt.orders[i]
           /\ orderbook.order_count = call.orderbook_ctxt.order_count + 1

\* C1 witness: an add_order ran on a book with several inactive slots, the
\* lowest of them not slot 0, for a candidate handed over with active = 0.
C1_Witness ==
    /\ Ran("add_order")
    /\ Cardinality(InactiveSlots(call.orderbook_ctxt)) >= 2
    /\ Least(InactiveSlots(call.orderbook_ctxt)) > 0
    /\ call.order.active = 0
    /\ orderbook.orders[Least(InactiveSlots(call.orderbook_ctxt))].active = 1

\* C2: add_order on a full book returns the book it was given: order_count
\* and every slot are those of the input, and the candidate is dropped.
C2_AddOnFullBookIsNoOp ==
    (Ran("add_order") /\ InactiveSlots(call.orderbook_ctxt) = {}) =>
        orderbook = call.orderbook_ctxt

\* C2 witness: an add_order ran on a book whose slots were all active.
C2_Witness ==
    /\ Ran("add_order")
    /\ InactiveSlots(call.orderbook_ctxt) = {}
    /\ \A i \in Slots : orderbook.orders[i] # [call.order EXCEPT !.active = 1]

\* The crossable pairs of ob are exactly two pairs over four different
\* slots (so neither buy crosses the other pair's sell).
TwoIndependentPairs(ob) ==
    \E p \in CrossablePairs(ob), q \in CrossablePairs(ob) :
        /\ Cardinality({p[1], p[2], q[1], q[2]}) = 4
        /\ CrossablePairs(ob) = {p, q}

\* C3: one match_orders call commits at most one pair: only the two slots
\* its result names can differ between the book read and the book returned;
\* on a book with two independently crossable pairs the call clears one of
\* them, leaves the other as it was and still crossable, and a second call
\* on the returned book commits that other pair.
C3_MatchCommitsAtMostOnePair ==
    Ran("match_orders") =>
        /\ \A k \in Slots :
              orderbook.orders[k] # call.orderbook_ctxt.orders[k] =>
                  /\ call.result.matched = 1
                  /\ k \in {call.result.buy_order_id, call.result.sell_order_id}
        /\ TwoIndependentPairs(call.orderbook_ctxt) =>
              LET first == FirstCrossable(call.orderbook_ctxt)
                  other == CHOOSE q \in CrossablePairs(call.orderbook_ctxt) :
                               q # first
                  second == match_orders(orderbook).result
              IN /\ call.result.matched = 1
                 /\ MatchedPair(call.result) = first
                 /\ CrossablePairs(orderbook) = {other}
                 /\ orderbook.orders[other[1]] =
                        call.orderbook_ctxt.orders[other[1]]
                 /\ orderbook.orders[other[2]] =
                        call.orderbook_ctxt.orders[other[2]]
                 /\ second.matched = 1
                 /\ MatchedPair(second) = other

\* C3 witness: match_orders ran on a book with two independently crossable
\* pairs and changed two slots.
C3_Witness ==
    /\ Ran("match_orders")
    /\ TwoIndependentPairs(call.orderbook_ctxt)
    /\ Cardinality({k \in Slots :
           orderbook.orders[k] # call.orderbook_ctxt.orders[k]}) = 2

\* C4: match_orders reports matched = 1 exactly when the book it read has a
\* crossable pair, and the pair it reports is then the first crossable pair
\* in row-major order (i outer, j inner).
C4_MatchTakesFirstCrossablePair ==
    Ran("match_orders") =>
        /\ call.result.matched = 1 <=> CrossablePairs(call.orderbook_ctxt) # {}
        /\ call.result.matched = 1 =>
              MatchedPair(call.result) = FirstCrossable(call.orderbook_ctxt)

\* C4 witness: the book read had several crossable pairs, and a pair that
\* comes earlier in the scan than the reported one was not crossable
\* although it was an active buy facing an active sell.
C4_Witness ==
    /\ Ran("match_orders")
    /\ call.result.matched = 1
    /\ Cardinality(CrossablePairs(call.orderbook_ctxt)) >= 2
    /\ \E p \in Slots \X Slots :
          /\ RowMajor(p) < RowMajor(MatchedPair(call.result))
          /\ call.orderbook_ctxt.orders[p[1]].side = BUY
          /\ call.orderbook_ctxt.orders[p[2]].side = SELL
          /\ call.orderbook_ctxt.orders[p[1]].active = 1
          /\ call.orderbook_ctxt.orders[p[2]].active = 1

\* Every active order of ob has the same owner.
OneOwner(ob) ==
    \A i \in Slots, j \in Slots :
        (ob.orders[i].active = 1 /\ ob.orders[j].active = 1) =>
            ob.orders[i].user_id = ob.orders[j].user_id

\* C5: match_orders never matches two slots of one owner: a reported match
\* joins slots whose user_id differ, and a book whose active orders all
\* belong to one owner yields matched = 0.
C5_MatchExcludesSelfTrade ==
    Ran("match_orders") =>
        /\ call.result.matched = 1 =>
              call.orderbook_ctxt.orders[call.result.buy_order_id].user_id #
              call.orderbook_ctxt.orders[call.result.sell_order_id].user_id
        /\ OneOwner(call.orderbook_ctxt) => call.result.matched = 0

\* C5 witness: the book read held an active buy and an active sell of one
\* owner, compatible in price, and nothing was matched.
C5_Witness ==
    /\ Ran("match_orders")
    /\ OneOwner(call.orderbook_ctxt)
    /\ call.result.matched = 0
    /\ \E i \in Slots, j \in Slots :
          /\ call.orderbook_ctxt.orders[i].side = BUY
          /\ call.orderbook_ctxt.orders[j].side = SELL
          /\ call.orderbook_ctxt.orders[i].active = 1
          /\ call.orderbook_ctxt.orders[j].active = 1
          /\ call.orderbook_ctxt.orders[i].order_type = LIMIT
          /\ call.orderbook_ctxt.orders[j].order_type = LIMIT
          /\ call.orderbook_ctxt.orders[i].price >
                 call.orderbook_ctxt.orders[j].price

\* The smaller of two numbers.
Min(a, b) == IF a < b THEN a ELSE b

\* The buy and sell orders, as match_orders read them, of a reported match.
MatchedBuy == call.orderbook_ctxt.orders[call.result.buy_order_id]
MatchedSell == call.orderbook_ctxt.orders[call.result.sell_order_id]

\* C6: the match price of a committed pair is the sell price if the buy
\* order is Market, else the buy price if the sell order is Market, else
\* floor((buyPrice + sellPrice) / 2), for all prices of the word.
C6_MatchPriceRule ==
    (Ran("match_orders") /\ call.result.matched = 1) =>
        call.result.match_price =
            IF MatchedBuy.order_type = MARKET THEN MatchedSell.price
            ELSE IF MatchedSell.order_type = MARKET THEN MatchedBuy.price
            ELSE (MatchedBuy.price + MatchedSell.price) \div 2

\* C7: on a committed match, match_amount is the smaller of the two
\* amounts, the amount of both matched slots is reduced by exactly
\* match_amount and stays within 0 .. its old value, a matched slot whose
\* amount reaches 0 is inactive and one with amount left stays active.
C7_MatchAmountAndFill ==
    (Ran("match_orders") /\ call.result.matched = 1) =>
        /\ call.result.match_amount = Min(MatchedBuy.amount, MatchedSell.amount)
        /\ \A k \in {call.result.buy_order_id, call.result.sell_order_id} :
              LET before == call.orderbook_ctxt.orders[k]
                  after == orderbook.orders[k]
              IN /\ after.amount = before.amount - call.result.match_amount
                 /\ after.amount >= 0 /\ after.amount <= before.amount
                 /\ after.amount = 0 => after.active = 0
                 /\ after.amount > 0 => after.active = 1

\* C7 witness: a match filled one slot completely and the other in part,
\* which stays active with the remainder.
C7_Witness ==
    /\ Ran("match_orders")
    /\ call.result.matched = 1
    /\ call.result.match_amount = 1
    /\ MatchedBuy.amount = 2
    /\ orderbook.orders[call.result.buy_order_id].amount = 1
    /\ orderbook.orders[call.result.buy_order_id].active = 1
    /\ orderbook.orders[call.result.sell_order_id].amount = 0
    /\ orderbook.orders[call.result.sell_order_id].active = 0

\* C8: match_orders on a book without a crossable pair (an empty book
\* among them) returns matched = 0 with every other result field 0 and the
\* book it read, order_count included.
C8_NoCrossablePairIsNoOp ==
    (Ran("match_orders") /\ CrossablePairs(call.orderbook_ctxt) = {}) =>
        /\ call.result.matched = 0
        /\ call.result.match_price = 0
        /\ call.result.match_amount = 0
        /\ call.result.buy_order_id = 0
        /\ call.result.sell_order_id = 0
        /\ orderbook = call.orderbook_ctxt

\* C8 witness: match_orders ran on a book that holds an active limit buy
\* and an active limit sell of different owners whose prices do not cross.
C8_Witness ==
    /\ Ran("match_orders")
    /\ CrossablePairs(call.orderbook_ctxt) = {}
    /\ \E i \in Slots, j \in Slots :
          /\ call.orderbook_ctxt.orders[i].side = BUY
          /\ call.orderbook_ctxt.orders[j].side = SELL
          /\ call.orderbook_ctxt.orders[i].active = 1
          /\ call.orderbook_ctxt.orders[j].active = 1
          /\ call.orderbook_ctxt.orders[i].user_id #
                 call.orderbook_ctxt.orders[j].user_id
          /\ call.orderbook_ctxt.orders[i].price <
                 call.orderbook_ctxt.orders[j].price

\* The condition under which cancel_order is to cancel: the index names a
\* slot, the slot is active and its owner is the caller.
Cancellable(ob, order_id, user) ==
    /\ order_id \in Slots
    /\ ob.orders[order_id].active = 1
    /\ ob.orders[order_id].user_id = user

\* The call turned slot order_id from active to inactive.
Deactivated(order_id) ==
    /\ order_id \in Slots
    /\ call.orderbook_ctxt.orders[order_id].active = 1
    /\ orderbook.orders[order_id].active = 0

\* C9: cancel_order(order_id, user, book) sets slot order_id inactive if
\* and only if order_id < MAX_ORDERS, the slot is active and its user_id
\* equals user; order_count goes down by exactly 1 if and only if that
\* deactivation happened.
C9_CancelIffOwnedActiveTarget ==
    Ran("cancel_order") =>
        /\ Deactivated(call.order_id) <=>
              Cancellable(call.orderbook_ctxt, call.order_id, call.user)
        /\ orderbook.order_count =
              call.orderbook_ctxt.order_count
                  - (IF Deactivated(call.order_id) THEN 1 ELSE 0)

\* C9 witness: a cancel_order by the owner deactivated an active slot while
\* another active slot of the same owner stayed active.
C9_Witness ==
    /\ Ran("cancel_order")
    /\ Deactivated(call.order_id)
    /\ \E k \in Slots \ {call.order_id} :
          /\ orderbook.orders[k].active = 1
          /\ orderbook.orders[k].user_id = call.user

\* C10: cancel_order with a wrong owner, an inactive target slot or an
\* index outside the book returns the book it read; a successful cancel
\* changes nothing but the active flag of the target slot and order_count.
C10_CancelFrame ==
    Ran("cancel_order") =>
        IF Cancellable(call.orderbook_ctxt, call.order_id, call.user)
        THEN /\ \A k \in Slots \ {call.order_id} :
                   orderbook.orders[k] = call.orderbook_ctxt.orders[k]
             /\ [orderbook.orders[call.order_id] EXCEPT !.active = 1] =
                    call.orderbook_ctxt.orders[call.order_id]
        ELSE orderbook = call.orderbook_ctxt

\* C10 witness: a cancel_order named an active slot of another owner, the
\* caller owning an active slot elsewhere, and the book came back as read.
C10_Witness ==
    /\ Ran("cancel_order")
    /\ call.order_id \in Slots
    /\ call.orderbook_ctxt.orders[call.order_id].active = 1
    /\ call.orderbook_ctxt.orders[call.order_id].user_id # call.user
    /\ \E k \in Slots :
          /\ call.orderbook_ctxt.orders[k].active = 1
          /\ call.orderbook_ctxt.orders[k].user_id = call.user
    /\ orderbook = call.orderbook_ctxt

\* --------------------------------------------------------------------- C11

RECURSIVE SumAmounts(_, _, _)
\* The sum, as an integer, of amount over the active slots j.. of one side.
SumAmounts(ob, side, j) ==
    IF j = MAX_ORDERS THEN 0
    ELSE (IF ob.orders[j].side = side /\ ob.orders[j].active = 1
          THEN ob.orders[j].amount ELSE 0)
         + SumAmounts(ob, side, j + 1)

\* Total active volume of one side of the book.
SideVolume(ob, side) == SumAmounts(ob, side, 0)

BuyLevels == 0 .. (BUY_LEVELS - 1)
SellLevels == BUY_LEVELS .. (DEPTH_LEN - 1)

\* C11: get_orderbook_depth returns 20 values; entries 0..9 all equal the
\* sum of amount over every active Buy slot and entries 10..19 the sum over
\* every active Sell slot, whatever price_levels and the prices are, and
\* the book is not modified.
C11_DepthIsSideVolume ==
    Ran("get_orderbook_depth") =>
        /\ DOMAIN call.depth = BuyLevels \cup SellLevels
        /\ \A k \in BuyLevels :
              call.depth[k] = SideVolume(call.orderbook_ctxt, BUY)
        /\ \A k \in SellLevels :
              call.depth[k] = SideVolume(call.orderbook_ctxt, SELL)
        /\ orderbook = call.orderbook_ctxt

\* What the code computes: each entry is the side's sum reduced to the u64
\* word, and the rest of C11 holds as stated.
DepthIsSideVolumeInU64 ==
    Ran("get_orderbook_depth") =>
        /\ DOMAIN call.depth = BuyLevels \cup SellLevels
        /\ \A k \in BuyLevels :
              call.depth[k]
                  = SideVolume(call.orderbook_ctxt, BUY) % U64_MOD
        /\ \A k \in SellLevels :
              call.depth[k]
                  = SideVolume(call.orderbook_ctxt, SELL) % U64_MOD
        /\ orderbook = call.orderbook_ctxt

\* --------------------------------------------------------------------- C12

\* Every slot index once, in increasing order.
EverySlot == [k \in 1 .. MAX_ORDERS |-> k - 1]

\* Every entry (i, j) of a table of the given number of rows and MAX_ORDERS
\* columns once, row by row.
EveryEntry(rows) ==
    [k \in 1 .. (rows * MAX_ORDERS) |->
        <<(k - 1) \div MAX_ORDERS, (k - 1) % MAX_ORDERS>>]

\* The indices an operation goes through when no iteration is skipped: a
\* function of the operation alone, whatever the book and the arguments.
FullScan(op) ==
    CASE op = "add_order" -> EverySlot
      [] op = "cancel_order" -> EverySlot
      [] op = "match_orders" -> EveryEntry(MAX_ORDERS)
      [] op = "get_orderbook_depth" -> EveryEntry(DEPTH_LEN)

\* C12: the sequence of indices an operation goes through is the same for
\* every input: add_order and cancel_order go through all MAX_ORDERS slots,
\* match_orders through all MAX_ORDERS x MAX_ORDERS pairs and
\* get_orderbook_depth through all 20 x MAX_ORDERS entries, in a fixed
\* order and with no early exit after an insertion, a match or a
\* cancellation.
C12_FullScanWhateverTheInput ==
    call.state = "done" => call.visited = FullScan(call.op)

\* A match made on a pair that is not the last one of the scan, with the
\* scan going on to the last pair.
C12_Witness ==
    /\ Ran("match_orders")
    /\ call.result.matched = 1
    /\ RowMajor(MatchedPair(call.result)) < MAX_ORDERS * MAX_ORDERS - 1
    /\ Len(call.visited) = MAX_ORDERS * MAX_ORDERS
    /\ call.visited[Len(call.visited)] = <<MAX_ORDERS - 1, MAX_ORDERS - 1>>

\* --------------------------------------------------------------------- C13

\* The callback of the last computation returned Ok.
Completed(op) == call.op = op /\ call.state = "completed"

\* C13: the book produced by a completed add_order, match_orders or
\* cancel_order invocation is written back: it is the book the program
\* holds afterwards, which the next invocation reads.
C13_ProducedBookIsWrittenBack ==
    \A op \in {"add_order", "match_orders", "cancel_order"} :
        Completed(op) => orderbook = call.output.field_0

\* --------------------------------------------------------------------- C14

Callbacks == {"add_order", "match_orders", "cancel_order"}

EventOf(op) ==
    CASE op = "add_order" -> "OrderAddedEvent"
      [] op = "match_orders" -> "OrdersMatchedEvent"
      [] op = "cancel_order" -> "OrderCancelledEvent"

\* C14: in each of the three callbacks, a failed verification of the output
\* ends in the AbortedComputation error with no event emitted; the event of
\* the operation is emitted, once, only when the verification succeeded;
\* and the callback queues nothing again: a queued computation is one no
\* callback has received the output of.
C14_AbortWithoutEventNoRetry ==
    call.op \in Callbacks =>
        /\ call.state = "queued" =>
              /\ call.output = NoOutput
              /\ call.events = <<>>
              /\ call.error = "none"
        /\ call.state # "queued" =>
              /\ ~call.output.verifies =>
                    /\ call.state = "aborted"
                    /\ call.error = "AbortedComputation"
                    /\ call.events = <<>>
              /\ call.output.verifies =>
                    /\ call.state = "completed"
                    /\ call.error = "none"
                    /\ call.events = <<EventOf(call.op)>>

\* A match_orders_callback whose output failed verification.
C14_Witness ==
    /\ call.op = "match_orders"
    /\ call.state = "aborted"
    /\ ~call.output.verifies
    /\ call.events = <<>>

\* --------------------------------------------------------------------- C15

\* C15: match_orders leaves order_count unchanged on every input, also when
\* the match sets one or both matched slots inactive; add_order changes it
\* by +1 or not at all, cancel_order by -1 or not at all, and
\* get_orderbook_depth not at all.
C15_OnlyAddAndCancelChangeCount ==
    LET before == call.orderbook_ctxt.order_count
        after == orderbook.order_count
    IN /\ Ran("match_orders") => after = before
       /\ Ran("get_orderbook_depth") => after = before
       /\ Ran("add_order") => after \in {before, AddU64(before, 1)}
       /\ Ran("cancel_order") => after \in {before, SubU64(before, 1)}

\* A match that sets both matched slots inactive on a book whose
\* order_count counts them.
C15_Witness ==
    /\ Ran("match_orders")
    /\ call.result.matched = 1
    /\ orderbook.orders[call.result.buy_order_id].active = 0
    /\ orderbook.orders[call.result.sell_order_id].active = 0
    /\ call.orderbook_ctxt.order_count >= 2
    /\ orderbook.order_count = call.orderbook_ctxt.order_count

\* --------------------------------------------------------------------- C16

\* The fields that say which order a slot holds.
Identity(o) == <<o.price, o.side, o.order_type, o.user_id>>

\* C16: along any sequence of add_order, match_orders and cancel_order
\* calls, a slot active before and after a call holds the same price, side,
\* order_type and user_id; add_order leaves every active slot as it was;
\* and the identity held at an index changes only when add_order puts its
\* order into a slot that was inactive, so no order moves to another index.
C16_SlotIdentityStable ==
    \A k \in Slots :
        LET before == call.orderbook_ctxt.orders[k]
            after == orderbook.orders[k]
        IN /\ before.active = 1 /\ after.active = 1 =>
                 Identity(after) = Identity(before)
           /\ call.op = "add_order" /\ before.active = 1 => after = before
           /\ Identity(after) # Identity(before) =>
                 /\ call.op = "add_order"
                 /\ before.active = 0
                 /\ after = [call.order EXCEPT !.active = 1]

\* add_order reuses a slot an earlier order has left (inactive, with that
\* order's user_id still in it) while a later slot stays active and
\* untouched.
C16_Witness ==
    /\ call.op = "add_order"
    /\ \E k \in Slots, l \in Slots :
          /\ k < l
          /\ call.orderbook_ctxt.orders[k].active = 0
          /\ call.orderbook_ctxt.orders[k].user_id # 0
          /\ Identity(call.orderbook_ctxt.orders[k]) # Identity(call.order)
          /\ orderbook.orders[k] = [call.order EXCEPT !.active = 1]
          /\ call.orderbook_ctxt.orders[l].active = 1
          /\ orderbook.orders[l] = call.orderbook_ctxt.orders[l]

\* --------------------------------------------------------------------- C17

\* C17: in every state reached from the empty book by add_order,
\* match_orders and cancel_order calls, order_count is at least the number
\* of active slots, and a cancel_order that deactivates a slot finds
\* order_count at 1 or more: its decrement does not go below 0.
C17_CountCoversActiveSlots ==
    /\ orderbook.order_count >= ActiveCount(orderbook.orders)
    /\ call.op = "cancel_order" /\ orderbook # call.orderbook_ctxt =>
          /\ call.orderbook_ctxt.order_count >= 1
          /\ orderbook.order_count = call.orderbook_ctxt.order_count - 1

\* A cancellation on a book whose order_count had drifted above the number
\* of active slots.
C17_Witness ==
    /\ call.op = "cancel_order"
    /\ orderbook # call.orderbook_ctxt
    /\ call.orderbook_ctxt.order_count
          > ActiveCount(call.orderbook_ctxt.orders)
    /\ orderbook.order_count > ActiveCount(orderbook.orders)

\* --------------------------------------------------------------------- C18

\* C18: every match_orders call that reports matched = 1 returns at least
\* one of the two matched slots inactive; so when only match_orders is
\* called, from any book, the calls that report a match are at most as many
\* as the slots active at the start (each takes one off the active ones
\* left), and once a call has reported matched = 0 every call reports
\* matched = 0 and returns the book it read.
C18_RepeatedMatchingSettles ==
    /\ Ran("match_orders") /\ call.result.matched = 1 =>
          \/ orderbook.orders[call.result.buy_order_id].active = 0
          \/ orderbook.orders[call.result.sell_order_id].active = 0
    /\ history.matched_calls + ActiveCount(orderbook.orders)
          <= history.active_at_start
    /\ history.settled =>
          /\ call.result.matched = 0
          /\ orderbook = call.orderbook_ctxt

\* A run that took two or more matches, one of them emptying both of its
\* slots, before a call reported none with orders still active.
C18_Witness ==
    /\ Ran("match_orders")
    /\ history.settled
    /\ history.matched_calls >= 2
    /\ history.matched_calls + ActiveCount(orderbook.orders)
          < history.active_at_start
    /\ ActiveCount(orderbook.orders) > 0

\* --------------------------------------------------------------------- C19

\* C19: when every order handed to add_order has amount > 0 (the orders of
\* SequenceSpec), every state reached from the empty book by add_order,
\* match_orders and cancel_order calls has amount > 0 in each active slot,
\* and every match reported has match_amount >= 1.
C19_ActiveAmountsPositive ==
    /\ \A k \in Slots :
          orderbook.orders[k].active = 1 => orderbook.orders[k].amount > 0
    /\ call.op = "match_orders" /\ call.result.matched = 1 =>
          call.result.match_amount >= 1

\* A partial fill: the match leaves the buy order active with what remains
\* of its amount.
C19_Witness ==
    /\ call.op = "match_orders"
    /\ call.result.matched = 1
    /\ call.order = ZeroOrder
    /\ orderbook.orders[call.result.buy_order_id].active = 1
    /\ orderbook.orders[call.result.buy_order_id].amount
          < call.orderbook_ctxt.orders[call.result.buy_order_id].amount
    /\ orderbook.orders[call.result.sell_order_id].active = 0

\* --------------------------------------------------------------------- C20

\* C20: every committed match respects the limit prices, for all u64
\* prices: a Limit buy order is matched at no more than its price, a Limit
\* sell order at no less than its price, and two Limit orders with the buy
\* price below the sell price are not matched.
C20_LimitPricesRespected ==
    Ran("match_orders") /\ call.result.matched = 1 =>
        /\ MatchedBuy.order_type = LIMIT =>
              call.result.match_price <= MatchedBuy.price
        /\ MatchedSell.order_type = LIMIT =>
              call.result.match_price >= MatchedSell.price
        /\ MatchedBuy.order_type = LIMIT /\ MatchedSell.order_type = LIMIT
              => MatchedBuy.price >= MatchedSell.price

=============================================================================
